---- MODULE Spec2Model ----
(***************************************************************************)
(* Model of the Lichess move-synchronisation core:                         *)
(*   src/src/lichess_ws.rs  LichessWebSocket   (send_move,                 *)
(*                                              process_messages)          *)
(*   src/src/auto_move.rs   AutoMoveController (execute_auto_move,         *)
(*                                              set_panic_mode)            *)
(*                                                                         *)
(* Three specifications share the same actions.                            *)
(*   Spec     : the session used directly, its calls serialised as in      *)
(*              src/examples/websocket_lichess.rs, where the session lives *)
(*              in an Arc<Mutex<LichessWebSocket>> and every call is made  *)
(*              with that outer lock held (lines 20, 35, 64).              *)
(*   AutoSpec : the session driven through the AutoMoveController, with    *)
(*              the clock; calls serialised in the same way.               *)
(*   ConcSpec : the &self methods are called from several threads without  *)
(*              an outer lock; the steps of send_move interleave at its    *)
(*              lock scopes and atomic accesses.                           *)
(* A behaviour makes at most MaxCalls calls.                               *)
(***************************************************************************)
EXTENDS Integers, Sequences, FiniteSets, TLC

(* ---------------------------- bounds ----------------------------------- *)
MaxCalls  == 3      \* calls made on the session in one behaviour
MaxInbox  == 1      \* messages the server has sent that are not yet read
MaxFrames == 2      \* messages read by one process_messages call
MaxMoveFrames == 1  \* "move" frames among them
TickMs    == 250    \* granularity of the simulated clock
MaxNow    == 750    \* last instant of the simulated clock

(* ------------------------ program constants ---------------------------- *)
DuplicateWindowMs == 500    \* auto_move.rs:84
PanicLagMs        == 50     \* auto_move.rs:96
NormalLagMs       == 20     \* auto_move.rs:98

(* ---------------------------- values ----------------------------------- *)
None == "None"
\* Option<Instant>
NoTime == <<>>
SomeTime(t) == <<t>>

\* moves handed to send_move / execute_auto_move
Moves == {"e2e4", "d2d4"}

\* threads that submit moves: "auto" goes through the AutoMoveController,
\* "ui" calls send_move directly (examples/websocket_lichess.rs:65)
Senders == {"auto", "ui"}

\* (lag_ms, berserked) pairs used by direct callers of send_move
DirectArgs == { <<20, FALSE>> }

\* A JSON number that as_u64() accepts, as two 32-bit limbs:
\* the value is hi * 2^32 + lo.
U64(hi, lo) == [kind |-> "u64", hi |-> hi, lo |-> lo]
U64Plies == { U64(0, 5), U64(0, 7), U64(1, 5) }
\* d has no "ply" member
NoPly  == [kind |-> "absent", hi |-> 0, lo |-> 0]
\* "ply" is present but as_u64() is None (-1, 7.5, "7")
BadPly == [kind |-> "other", hi |-> 0, lo |-> 0]
PlyFields == U64Plies \cup {NoPly, BadPly}

\* `ply as u32` (lichess_ws.rs:191): the truncating cast keeps the low limb
AsU32(p) == p.lo

\* optional string members of the "d" object of a move frame
UciFields == {None, "e7e5"}     \* d.uci
UFields   == {None, "g8f6"}     \* d.u
FenFields == {None, "fen1"}     \* d.fen
\* which of d.status / d.winner are present
TermFields == {"none", "status", "winner", "both"}

\* Text frames that change nothing: not JSON, no string "t", "crowd", other "t"
IgnoredTexts == {"notjson", "notag", "crowd", "unknown"}

VARIABLES
    \* LichessWebSocket fields (lichess_ws.rs:68-75)
    pending_move,      \* Option<String>
    current_ack,       \* AtomicU32
    game_ended,        \* AtomicBool
    last_move_acked,   \* AtomicBool
    \* the transport behind the ws mutex
    ws_owner,          \* holder of the ws mutex, or None
    conn,              \* "open" | "closed"
    inbox,             \* number of messages sent by the server and not yet read
    wire,              \* frames written by send_move, in order
    \* AutoMoveController fields (auto_move.rs:7-13) and the clock
    panic_mode,
    last_move_sent,
    last_move_time,
    now,
    pending_owner,     \* holder of the pending_move mutex, or None
    \* send_move / execute_auto_move calls in progress, per sender thread
    pc,                \* position of the thread
    args,              \* [uci, lag_ms, berserked] of the send_move call
    ack,               \* local `ack` of send_move (line 137)
    result,            \* result of send_move
    ret,               \* return value of execute_auto_move
    \* the process_messages call of the receiving thread
    rx_pc,
    messages,          \* Vec<String> being collected
    nread,             \* messages handled by the loop of the current call
    rx_result,         \* "Ok" | "Err"
    nmove,             \* "move" frames handled by the current call
    rx_hist,           \* history of the current call, used only by the properties
    \* history variables, used only by the properties
    entry,             \* session state at the start of each send_move call
    x_entry,           \* dispatcher state at the start of execute_auto_move
    cleared,           \* an ack/reload/resync was processed during the call
    saw_ack,           \* acks processed since a move was last set: "no", or
                       \* whether one of them took a pending move ("took", "empty")
    ended_emitted,     \* a GAME_END event has been produced
    nresync,           \* reload/resync frames processed by the current call
    last_ply,          \* "ply" of the last move frame in which it was a u64
    calls,             \* calls begun so far
    prev_ack,          \* current_ack before the last store to it
    failed_move        \* the move pending_move was set to by a send_move whose
                       \* write failed, until an ack or a reload/resync

sessVars  == <<pending_move, current_ack, game_ended, last_move_acked>>
wsVars    == <<ws_owner, conn, inbox, wire>>
dispVars  == <<panic_mode, last_move_sent, last_move_time>>
callVars  == <<pc, args, ack, result, ret>>
rxVars    == <<rx_pc, messages, nread, rx_result, nmove, rx_hist>>
histVars  == <<entry, x_entry, cleared, saw_ack, ended_emitted, nresync, last_ply, calls,
               prev_ack, failed_move>>
vars == <<sessVars, wsVars, dispVars, now, pending_owner, callVars, rxVars, histVars>>

NoArgs  == [uci |-> None, lag_ms |-> 0, berserked |-> FALSE]
NoEntry == [pending |-> None, ended |-> FALSE, wirelen |-> 0,
            emitted |-> FALSE, acked |-> "no",
            written |-> FALSE, wpending |-> None, wended |-> FALSE, wack |-> 0,
            failed |-> None]
NoXEntry == [active |-> FALSE, uci |-> None, last_sent |-> None, last_time |-> NoTime,
             at |-> 0, prev_ret |-> FALSE]

\* no "move" frame handled yet
NoMove == [seen |-> FALSE, uci |-> None, u |-> None, fen |-> None, term |-> "none",
           from |-> 0, to |-> 0]
\* rx_hist: the kind of the last message handled, whether an ignored one
\* came before it, why the loop was left, and the last "move" frame with
\* the positions of its events in `messages`
NoRxHist == [last |-> None, after_ignored |-> FALSE, end |-> None, move |-> NoMove]

(* events pushed on `messages` (lichess_ws.rs:185, 196, 198, 203, 209) *)
GameEndEvent  == <<"GAME_END">>
MoveEvent(m)  == <<"MOVE", m>>
FenEvent(f)   == <<"FEN", f>>

(* LichessWebSocket::new, AutoMoveController::new *)
Init ==
    /\ pending_move = None
    /\ current_ack = 0
    /\ game_ended = FALSE
    /\ last_move_acked = FALSE
    /\ ws_owner = None
    /\ conn = "open"
    /\ inbox = 0
    /\ wire = <<>>
    /\ panic_mode = FALSE
    /\ last_move_sent = None
    /\ last_move_time = NoTime
    /\ now = 0
    /\ pending_owner = None
    /\ pc = [t \in Senders |-> "idle"]
    /\ args = [t \in Senders |-> NoArgs]
    /\ ack = [t \in Senders |-> 0]
    /\ result = [t \in Senders |-> None]
    /\ ret = FALSE
    /\ rx_pc = "idle"
    /\ messages = <<>>
    /\ nread = 0
    /\ rx_result = None
    /\ nmove = 0
    /\ rx_hist = NoRxHist
    /\ entry = [t \in Senders |-> NoEntry]
    /\ x_entry = NoXEntry
    /\ cleared = [t \in Senders |-> FALSE]
    /\ saw_ack = "no"
    /\ prev_ack = 0
    /\ failed_move = None
    /\ ended_emitted = FALSE
    /\ nresync = 0
    /\ last_ply = NoPly
    /\ calls = 0

\* no call on the session is in progress
AllIdle == rx_pc = "idle" /\ \A t \in Senders : pc[t] = "idle"

(* ----------------------------------------------------------------------- *)
(* LichessWebSocket::send_move (lichess_ws.rs:113-156)                     *)
(* ----------------------------------------------------------------------- *)
ErrGameEnded   == "Game has ended"          \* line 117
ErrMovePending == "Move already pending"    \* line 125
ErrSendFailed  == "Failed to send move"     \* line 153

\* the JSON text built at lines 138-146
MoveFrame(uci, a, berserked, lag_ms) ==
    [t |-> "move", u |-> uci, a |-> a, b |-> IF berserked THEN 1 ELSE 0, l |-> lag_ms]

\* the caller enters send_move(uci, lag_ms, berserked)
EnterSendMove(t, uci, lag_ms, berserked) ==
    /\ calls < MaxCalls
    /\ calls' = calls + 1
    /\ pc' = [pc EXCEPT ![t] = "s_ended"]
    /\ args' = [args EXCEPT ![t] = [uci |-> uci, lag_ms |-> lag_ms, berserked |-> berserked]]
    /\ ack' = [ack EXCEPT ![t] = 0]
    /\ result' = [result EXCEPT ![t] = None]
    /\ entry' = [entry EXCEPT ![t] = [pending |-> pending_move, ended |-> game_ended,
                                      wirelen |-> Len(wire),
                                      emitted |-> ended_emitted, acked |-> saw_ack,
                                      written |-> FALSE, wpending |-> None,
                                      wended |-> FALSE, wack |-> 0,
                                      failed |-> failed_move]]
    /\ cleared' = [cleared EXCEPT ![t] = FALSE]

\* a direct call, as in examples/websocket_lichess.rs:65
SendMove_Call(t, uci, lag_ms, berserked) ==
    /\ pc[t] = "idle"
    /\ EnterSendMove(t, uci, lag_ms, berserked)
    /\ UNCHANGED <<sessVars, wsVars, dispVars, now, pending_owner, ret, rxVars,
                   x_entry, saw_ack, ended_emitted, nresync, last_ply, prev_ack, failed_move>>

\* lines 115-118: if self.game_ended.load() { return Err("Game has ended") }
SendMove_CheckEnded(t) ==
    /\ pc[t] = "s_ended"
    /\ IF game_ended
          THEN /\ result' = [result EXCEPT ![t] = ErrGameEnded]
               /\ pc' = [pc EXCEPT ![t] = "s_ret"]
          ELSE /\ result' = result
               /\ pc' = [pc EXCEPT ![t] = "s_check"]
    /\ UNCHANGED <<sessVars, wsVars, dispVars, now, pending_owner, args, ack, ret, rxVars,
                   histVars>>

\* lines 122 and 131: self.pending_move.lock(); the thread waits while
\* another one holds the mutex
SendMove_LockPending(t) ==
    /\ pc[t] \in {"s_check", "s_set"}
    /\ pending_owner = None
    /\ pending_owner' = t
    /\ UNCHANGED <<sessVars, wsVars, dispVars, now, callVars, rxVars, histVars>>

\* send_move without the rejection of a second pending move
SendMove_CheckPending_NoReject(t) ==
    /\ pc[t] = "s_check"
    /\ pending_owner = t
    /\ pending_owner' = None
    /\ result' = result
    /\ pc' = [pc EXCEPT ![t] = "s_set"]
    /\ UNCHANGED <<sessVars, wsVars, dispVars, now, args, ack, ret, rxVars, histVars>>

\* lines 120-127: first lock scope, if pending.is_some() { return Err(..) };
\* the guard is dropped at the end of the scope and by the return
SendMove_CheckPending(t) ==
    /\ pc[t] = "s_check"
    /\ pending_owner = t
    /\ pending_owner' = None
    /\ IF pending_move # None
          THEN /\ result' = [result EXCEPT ![t] = ErrMovePending]
               /\ pc' = [pc EXCEPT ![t] = "s_ret"]
          ELSE /\ result' = result
               /\ pc' = [pc EXCEPT ![t] = "s_set"]
    /\ UNCHANGED <<sessVars, wsVars, dispVars, now, args, ack, ret, rxVars, histVars>>

\* send_move that still holds the pending_move mutex when it goes on to
\* take the ws mutex
SendMove_SetPending_KeepsLock(t) ==
    /\ pc[t] = "s_set"
    /\ pending_owner = t
    /\ pending_owner' = t
    /\ pending_move' = args[t].uci
    /\ pc' = [pc EXCEPT ![t] = "s_build"]
    /\ saw_ack' = "no"
    /\ failed_move' = None
    /\ UNCHANGED <<current_ack, game_ended, last_move_acked, wsVars, dispVars, now,
                   args, ack, result, ret, rxVars,
                   entry, x_entry, cleared, ended_emitted, nresync, last_ply, calls, prev_ack>>

\* lines 129-133: second lock scope, *pending = Some(uci)
SendMove_SetPending(t) ==
    /\ pc[t] = "s_set"
    /\ pending_owner = t
    /\ pending_owner' = None
    /\ pending_move' = args[t].uci
    /\ pc' = [pc EXCEPT ![t] = "s_build"]
    /\ saw_ack' = "no"
    /\ failed_move' = None
    /\ UNCHANGED <<current_ack, game_ended, last_move_acked, wsVars, dispVars, now,
                   args, ack, result, ret, rxVars,
                   entry, x_entry, cleared, ended_emitted, nresync, last_ply, calls, prev_ack>>

\* lines 134-146: last_move_acked.store(false); ack = current_ack.load()
SendMove_Build(t) ==
    /\ pc[t] = "s_build"
    /\ last_move_acked' = FALSE
    /\ ack' = [ack EXCEPT ![t] = current_ack]
    /\ pc' = [pc EXCEPT ![t] = "s_write"]
    /\ UNCHANGED <<pending_move, current_ack, game_ended, wsVars, dispVars, now, pending_owner,
                   args, result, ret, rxVars, histVars>>

\* entry[t] with the session state the ws.send of line 152 finds
AtWrite(e) ==
    [e EXCEPT !.written = TRUE, !.wpending = pending_move, !.wended = game_ended,
              !.wack = current_ack]

\* send_move whose frame reaches the transport although send reports a failure
SendMove_Write_ThenFail(t, delivered) ==
    /\ pc[t] = "s_write"
    /\ ws_owner = None
    /\ wire' = Append(wire, MoveFrame(args[t].uci, ack[t], args[t].berserked, args[t].lag_ms))
    /\ result' = [result EXCEPT ![t] = IF delivered /\ conn = "open" THEN "Ok"
                                       ELSE ErrSendFailed]
    /\ failed_move' = IF delivered /\ conn = "open" THEN failed_move ELSE args[t].uci
    /\ pc' = [pc EXCEPT ![t] = "s_ret"]
    /\ entry' = [entry EXCEPT ![t] = AtWrite(entry[t])]
    /\ UNCHANGED <<sessVars, ws_owner, conn, inbox, dispVars, now, pending_owner,
                   args, ack, ret, rxVars,
                   x_entry, cleared, saw_ack, ended_emitted, nresync, last_ply, calls,
                   prev_ack>>

\* send_move that empties the pending slot again when its write fails
SendMove_Write_RollsBack(t, delivered) ==
    /\ pc[t] = "s_write"
    /\ ws_owner = None
    /\ IF delivered /\ conn = "open"
          THEN /\ wire' = Append(wire, MoveFrame(args[t].uci, ack[t],
                                                 args[t].berserked, args[t].lag_ms))
               /\ result' = [result EXCEPT ![t] = "Ok"]
               /\ failed_move' = failed_move
               /\ pending_move' = pending_move
          ELSE /\ wire' = wire
               /\ result' = [result EXCEPT ![t] = ErrSendFailed]
               /\ failed_move' = args[t].uci
               /\ pending_move' = None
    /\ pc' = [pc EXCEPT ![t] = "s_ret"]
    /\ entry' = [entry EXCEPT ![t] = AtWrite(entry[t])]
    /\ UNCHANGED <<current_ack, game_ended, last_move_acked, ws_owner, conn, inbox,
                   dispVars, now, pending_owner, args, ack, ret, rxVars,
                   x_entry, cleared, saw_ack, ended_emitted, nresync, last_ply, calls,
                   prev_ack>>

\* lines 151-155: lock ws, ws.send(text); `delivered` is the transport's answer.
\* The thread waits while process_messages holds the ws mutex.
SendMove_Write(t, delivered) ==
    /\ pc[t] = "s_write"
    /\ ws_owner = None
    /\ IF delivered /\ conn = "open"
          THEN /\ wire' = Append(wire, MoveFrame(args[t].uci, ack[t],
                                                 args[t].berserked, args[t].lag_ms))
               /\ result' = [result EXCEPT ![t] = "Ok"]
               /\ failed_move' = failed_move
          ELSE /\ wire' = wire
               /\ result' = [result EXCEPT ![t] = ErrSendFailed]
               /\ failed_move' = args[t].uci
    /\ pc' = [pc EXCEPT ![t] = "s_ret"]
    /\ entry' = [entry EXCEPT ![t] = AtWrite(entry[t])]
    /\ UNCHANGED <<sessVars, ws_owner, conn, inbox, dispVars, now, pending_owner,
                   args, ack, ret, rxVars,
                   x_entry, cleared, saw_ack, ended_emitted, nresync, last_ply, calls,
                   prev_ack>>

\* the direct caller gets the result back
SendMove_Return(t) ==
    /\ pc[t] = "s_ret"
    /\ ~(t = "auto" /\ x_entry.active)
    /\ pc' = [pc EXCEPT ![t] = "idle"]
    /\ args' = [args EXCEPT ![t] = NoArgs]
    /\ ack' = [ack EXCEPT ![t] = 0]
    /\ result' = [result EXCEPT ![t] = None]
    /\ entry' = [entry EXCEPT ![t] = NoEntry]
    /\ cleared' = [cleared EXCEPT ![t] = FALSE]
    /\ UNCHANGED <<sessVars, wsVars, dispVars, now, pending_owner, ret, rxVars,
                   x_entry, saw_ack, ended_emitted, nresync, last_ply, calls, prev_ack,
                   failed_move>>

(* ----------------------------------------------------------------------- *)
(* AutoMoveController (auto_move.rs)                                       *)
(* ----------------------------------------------------------------------- *)

\* the duplicate test with the window closed at 500 ms instead of open
IsDuplicate_Inclusive(uci, sent, time, at) ==
    /\ sent # None
    /\ time # NoTime
    /\ sent = uci
    /\ at - time[1] <= DuplicateWindowMs

\* lines 83-84: the duplicate test of execute_auto_move
IsDuplicate(uci, sent, time, at) ==
    /\ sent # None
    /\ time # NoTime
    /\ sent = uci
    /\ at - time[1] < DuplicateWindowMs

\* the two lag values exchanged
LagMs_Swapped(panic) == IF panic THEN NormalLagMs ELSE PanicLagMs

\* lines 95-99
LagMs(panic) == IF panic THEN PanicLagMs ELSE NormalLagMs

\* line 101
Berserked(panic) == panic

\* execute_auto_move that stamps the time of a suppressed attempt too
ExecuteAutoMove_Begin_StampsAlways(uci) ==
    /\ pc["auto"] = "idle"
    /\ calls < MaxCalls
    /\ LET dup == IsDuplicate(uci, last_move_sent, last_move_time, now) IN
       /\ x_entry' = [active |-> TRUE, uci |-> uci, last_sent |-> last_move_sent,
                      last_time |-> last_move_time, at |-> now, prev_ret |-> ret]
       /\ last_move_sent' = uci
       /\ last_move_time' = SomeTime(now)
       /\ IF dup
             THEN /\ ret' = FALSE
                  /\ pc' = [pc EXCEPT !["auto"] = "x_ret"]
                  /\ calls' = calls + 1
                  /\ UNCHANGED <<args, ack, result, entry, cleared>>
             ELSE /\ ret' = FALSE
                  /\ EnterSendMove("auto", uci, LagMs(panic_mode), Berserked(panic_mode))
    /\ UNCHANGED <<sessVars, wsVars, panic_mode, now, pending_owner, rxVars,
                   saw_ack, ended_emitted, nresync, last_ply, prev_ack, failed_move>>

\* lines 82-104: `now` is taken, the duplicate test made, the last move
\* recorded and send_move entered.  The controller is borrowed mutably for
\* the whole call, so its fields cannot change until the call returns.
ExecuteAutoMove_Begin(uci) ==
    /\ pc["auto"] = "idle"
    /\ calls < MaxCalls
    /\ LET dup == IsDuplicate(uci, last_move_sent, last_move_time, now) IN
       /\ x_entry' = [active |-> TRUE, uci |-> uci, last_sent |-> last_move_sent,
                      last_time |-> last_move_time, at |-> now, prev_ret |-> ret]
       /\ IF dup
             THEN /\ ret' = FALSE
                  /\ pc' = [pc EXCEPT !["auto"] = "x_ret"]
                  /\ calls' = calls + 1
                  /\ UNCHANGED <<last_move_sent, last_move_time, args, ack, result,
                                 entry, cleared>>
             ELSE /\ ret' = FALSE
                  /\ last_move_sent' = uci
                  /\ last_move_time' = SomeTime(now)
                  /\ EnterSendMove("auto", uci, LagMs(panic_mode), Berserked(panic_mode))
    /\ UNCHANGED <<sessVars, wsVars, panic_mode, now, pending_owner, rxVars,
                   saw_ack, ended_emitted, nresync, last_ply, prev_ack, failed_move>>

\* execute_auto_move reporting success whatever send_move returned
ExecuteAutoMove_Match_AlwaysTrue ==
    /\ pc["auto"] = "s_ret"
    /\ x_entry.active
    /\ ret' = TRUE
    /\ pc' = [pc EXCEPT !["auto"] = "x_ret"]
    /\ UNCHANGED <<sessVars, wsVars, dispVars, now, pending_owner, args, ack, result, rxVars,
                   histVars>>

\* lines 104-114: match ws.send_move(..) { Ok(_) => true, Err(_) => false }
ExecuteAutoMove_Match ==
    /\ pc["auto"] = "s_ret"
    /\ x_entry.active
    /\ ret' = (result["auto"] = "Ok")
    /\ pc' = [pc EXCEPT !["auto"] = "x_ret"]
    /\ UNCHANGED <<sessVars, wsVars, dispVars, now, pending_owner, args, ack, result, rxVars,
                   histVars>>

\* execute_auto_move returns to its caller
ExecuteAutoMove_Return ==
    /\ pc["auto"] = "x_ret"
    /\ pc' = [pc EXCEPT !["auto"] = "idle"]
    /\ x_entry' = NoXEntry
    /\ args' = [args EXCEPT !["auto"] = NoArgs]
    /\ ack' = [ack EXCEPT !["auto"] = 0]
    /\ result' = [result EXCEPT !["auto"] = None]
    /\ entry' = [entry EXCEPT !["auto"] = NoEntry]
    /\ cleared' = [cleared EXCEPT !["auto"] = FALSE]
    /\ UNCHANGED <<sessVars, wsVars, dispVars, now, pending_owner, ret, rxVars,
                   saw_ack, ended_emitted, nresync, last_ply, calls, prev_ack, failed_move>>

\* lines 43-50: set_panic_mode(&mut self, panic)
SetPanicMode(panic) ==
    /\ pc["auto"] = "idle"
    /\ panic_mode' = panic
    /\ UNCHANGED <<sessVars, wsVars, last_move_sent, last_move_time, now, pending_owner,
                   callVars, rxVars, histVars>>

\* time passes (Instant::now() is monotonic)
Tick ==
    /\ now + TickMs <= MaxNow
    /\ now' = now + TickMs
    /\ UNCHANGED <<sessVars, wsVars, dispVars, pending_owner, callVars, rxVars, histVars>>

(* ----------------------------------------------------------------------- *)
(* LichessWebSocket::process_messages (lichess_ws.rs:159-253)              *)
(* ----------------------------------------------------------------------- *)

\* the server puts one more message on the connection
ServerSend ==
    /\ conn = "open"
    /\ inbox < MaxInbox
    /\ inbox' = inbox + 1
    /\ UNCHANGED <<sessVars, ws_owner, conn, wire, dispVars, now, pending_owner, callVars,
                   rxVars, histVars>>

\* lines 160-161: messages = Vec::new(); ws = self.ws.lock()
ProcessMessages_Begin ==
    /\ rx_pc = "idle"
    /\ calls < MaxCalls
    /\ calls' = calls + 1
    /\ ws_owner = None
    /\ ws_owner' = "rx"
    /\ rx_pc' = "loop"
    /\ messages' = <<>>
    /\ nread' = 0
    /\ rx_result' = None
    /\ nmove' = 0
    /\ rx_hist' = NoRxHist
    /\ nresync' = 0
    /\ UNCHANGED <<sessVars, conn, inbox, wire, dispVars, now, pending_owner, callVars,
                   entry, x_entry, cleared, saw_ack, ended_emitted, last_ply, prev_ack,
                   failed_move>>

\* line 165: ws.read() returns Ok(msg).  The socket made by `new` (lines
\* 79-96) is a blocking one, so with nothing to read the call waits here.
ReadsMessage ==
    /\ rx_pc = "loop"
    /\ conn = "open"
    /\ inbox > 0
    /\ nread < MaxFrames
    /\ inbox' = inbox - 1
    /\ nread' = nread + 1

\* rx_hist after a message of the given kind was handled
Handled(kind) ==
    [rx_hist EXCEPT !.last = kind,
                    !.after_ignored = rx_hist.after_ignored \/ rx_hist.last = "ignored"]

\* the send_move calls in progress see the pending slot emptied under them
MarkCleared == [t \in Senders |-> cleared[t] \/ pc[t] # "idle"]

\* an ack that records the acceptance but leaves the pending slot alone
ProcessMessages_Ack_KeepsPending ==
    /\ ReadsMessage
    /\ pending_owner = None
    /\ last_move_acked' = TRUE
    /\ pending_move' = pending_move
    /\ saw_ack' = IF pending_move # None \/ saw_ack = "took" THEN "took" ELSE "empty"
    /\ cleared' = MarkCleared
    /\ rx_hist' = Handled("ack")
    /\ failed_move' = None
    /\ UNCHANGED <<current_ack, game_ended, ws_owner, conn, wire, dispVars, now, pending_owner,
                   callVars,
                   rx_pc, messages, rx_result, nmove,
                   entry, x_entry, ended_emitted, nresync, last_ply, calls, prev_ack>>

\* lines 175-181: "ack"
ProcessMessages_Ack ==
    /\ ReadsMessage
    /\ pending_owner = None
    /\ last_move_acked' = TRUE
    /\ pending_move' = None
    /\ saw_ack' = IF pending_move # None \/ saw_ack = "took" THEN "took" ELSE "empty"
    /\ cleared' = MarkCleared
    /\ rx_hist' = Handled("ack")
    /\ failed_move' = None
    /\ UNCHANGED <<current_ack, game_ended, ws_owner, conn, wire, dispVars, now, pending_owner,
                   callVars,
                   rx_pc, messages, rx_result, nmove,
                   entry, x_entry, ended_emitted, nresync, last_ply, calls, prev_ack>>

\* an "endData" that also empties the pending slot
ProcessMessages_EndData_ClearsPending ==
    /\ ReadsMessage
    /\ game_ended' = TRUE
    /\ pending_move' = None
    /\ messages' = Append(messages, GameEndEvent)
    /\ ended_emitted' = TRUE
    /\ rx_hist' = Handled("endData")
    /\ UNCHANGED <<current_ack, last_move_acked, ws_owner, conn, wire,
                   dispVars, now, pending_owner, callVars, rx_pc, rx_result, nmove,
                   entry, x_entry, cleared, saw_ack, nresync, last_ply, calls, prev_ack,
                   failed_move>>

\* lines 182-186: "endData"
ProcessMessages_EndData ==
    /\ ReadsMessage
    /\ game_ended' = TRUE
    /\ messages' = Append(messages, GameEndEvent)
    /\ ended_emitted' = TRUE
    /\ rx_hist' = Handled("endData")
    /\ UNCHANGED <<pending_move, current_ack, last_move_acked, ws_owner, conn, wire,
                   dispVars, now, pending_owner, callVars, rx_pc, rx_result, nmove,
                   entry, x_entry, cleared, saw_ack, nresync, last_ply, calls, prev_ack,
                   failed_move>>

\* current_ack clamped to the largest ply seen
AckAfterMove_Max(ply, cur) ==
    IF ply \in U64Plies /\ AsU32(ply) > cur THEN AsU32(ply) ELSE cur

\* lines 190-192: the new value of current_ack for a move frame
AckAfterMove(ply, cur) == IF ply \in U64Plies THEN AsU32(ply) ELSE cur

\* lines 207: d.get("status").is_some() || d.get("winner").is_some()
IsTerminal(term) == term # "none"

\* the events of a move frame whose "u" is reported next to its "uci"
MoveEvents_BothFields(uci, u, fen, term) ==
       (IF uci # None THEN <<MoveEvent(uci)>> ELSE <<>>)
    \o (IF u # None THEN <<MoveEvent(u)>> ELSE <<>>)
    \o (IF fen # None THEN <<FenEvent(fen)>> ELSE <<>>)
    \o (IF IsTerminal(term) THEN <<GameEndEvent>> ELSE <<>>)

\* lines 194-210: the events one move frame pushes, in order
MoveEvents(uci, u, fen, term) ==
       (IF uci # None THEN <<MoveEvent(uci)>>
        ELSE IF u # None THEN <<MoveEvent(u)>> ELSE <<>>)
    \o (IF fen # None THEN <<FenEvent(fen)>> ELSE <<>>)
    \o (IF IsTerminal(term) THEN <<GameEndEvent>> ELSE <<>>)

\* lines 187-212: "move"; hasD is whether the frame has a "d" member
ProcessMessages_Move(hasD, ply, uci, u, fen, term) ==
    /\ ReadsMessage
    /\ nmove < MaxMoveFrames
    /\ nmove' = nmove + 1
    /\ rx_hist' = [Handled("move") EXCEPT !.move =
                      IF hasD THEN [seen |-> TRUE, uci |-> uci, u |-> u, fen |-> fen,
                                    term |-> term, from |-> Len(messages),
                                    to |-> Len(messages) +
                                           Len(MoveEvents(uci, u, fen, term))]
                      ELSE [NoMove EXCEPT !.seen = TRUE, !.from = Len(messages),
                                          !.to = Len(messages)]]
    /\ IF hasD
          THEN /\ current_ack' = AckAfterMove(ply, current_ack)
               /\ messages' = messages \o MoveEvents(uci, u, fen, term)
               /\ game_ended' = (game_ended \/ IsTerminal(term))
               /\ ended_emitted' = (ended_emitted \/ IsTerminal(term))
               /\ last_ply' = IF ply \in U64Plies THEN ply ELSE last_ply
               /\ prev_ack' = IF ply \in U64Plies THEN current_ack ELSE prev_ack
          ELSE UNCHANGED <<current_ack, messages, game_ended, ended_emitted, last_ply,
                           prev_ack>>
    /\ UNCHANGED <<pending_move, last_move_acked, ws_owner, conn, wire, dispVars, now,
                   pending_owner,
                   callVars, rx_pc, rx_result, entry, x_entry, cleared, saw_ack, nresync,
                   calls, failed_move>>

\* a reload/resync that resets the whole move state, game_ended included
ProcessMessages_Resync_ResetsEnded(kind) ==
    /\ ReadsMessage
    /\ kind \in {"reload", "resync"}
    /\ pending_owner = None
    /\ pending_move' = None
    /\ game_ended' = FALSE
    /\ nresync' = nresync + 1
    /\ cleared' = MarkCleared
    /\ rx_hist' = Handled(kind)
    /\ failed_move' = None
    /\ UNCHANGED <<current_ack, last_move_acked, ws_owner, conn, wire,
                   dispVars, now, pending_owner, callVars, rx_pc, messages, rx_result, nmove,
                   entry, x_entry, saw_ack, ended_emitted, last_ply, calls, prev_ack>>

\* lines 213-218: "reload" | "resync"
ProcessMessages_Resync(kind) ==
    /\ ReadsMessage
    /\ kind \in {"reload", "resync"}
    /\ pending_owner = None
    /\ pending_move' = None
    /\ nresync' = nresync + 1
    /\ cleared' = MarkCleared
    /\ rx_hist' = Handled(kind)
    /\ failed_move' = None
    /\ UNCHANGED <<current_ack, game_ended, last_move_acked, ws_owner, conn, wire,
                   dispVars, now, pending_owner, callVars, rx_pc, messages, rx_result, nmove,
                   entry, x_entry, saw_ack, ended_emitted, last_ply, calls, prev_ack>>

\* a message that is not understood ends the call
ProcessMessages_Ignored_Stops(kind) ==
    /\ ReadsMessage
    /\ kind \in IgnoredTexts \cup {"binary"}
    /\ rx_hist' = Handled("ignored")
    /\ ws_owner' = None
    /\ rx_pc' = "p_ret"
    /\ rx_result' = "Ok"
    /\ UNCHANGED <<sessVars, conn, wire, dispVars, now, pending_owner, callVars,
                   messages, nmove, histVars>>

\* lines 172-173, 219-225, 238: text that is not JSON or has no string "t",
\* "crowd", an unknown "t", and Binary/Pong/Frame messages
ProcessMessages_Ignored(kind) ==
    /\ ReadsMessage
    /\ kind \in IgnoredTexts \cup {"binary"}
    /\ rx_hist' = Handled("ignored")
    /\ UNCHANGED <<sessVars, ws_owner, conn, wire, dispVars, now, pending_owner, callVars,
                   rx_pc, messages, rx_result, nmove, histVars>>

\* lines 230-233: Ping; `ponged` is whether ws.send(Pong) succeeds
ProcessMessages_Ping(ponged) ==
    /\ ReadsMessage
    /\ IF ponged
          THEN /\ rx_hist' = Handled("ping")
               /\ UNCHANGED <<ws_owner, rx_pc, rx_result>>
          ELSE /\ rx_hist' = [Handled("ping") EXCEPT !.end = "pong_failed"]
               /\ ws_owner' = None
               /\ rx_pc' = "p_ret"
               /\ rx_result' = "Err"
    /\ UNCHANGED <<sessVars, conn, wire, dispVars, now, pending_owner, callVars, messages,
                   nmove, histVars>>

\* lines 234-237: Close, break
ProcessMessages_Close ==
    /\ rx_pc = "loop"
    /\ conn = "open"
    /\ inbox > 0
    /\ inbox' = 0
    /\ conn' = "closed"
    /\ ws_owner' = None
    /\ rx_pc' = "p_ret"
    /\ rx_result' = "Ok"
    /\ rx_hist' = [rx_hist EXCEPT !.end = "close"]
    /\ UNCHANGED <<sessVars, wire, dispVars, now, pending_owner, callVars, messages, nread,
                   nmove, histVars>>

\* lines 245-248: ws.read() fails, break; line 252: Ok(messages).
\* `fatal` is whether the connection is lost; a closed connection always fails.
ProcessMessages_ReadError(fatal) ==
    /\ rx_pc = "loop"
    /\ conn' = IF fatal THEN "closed" ELSE conn
    /\ inbox' = IF fatal \/ conn = "closed" THEN 0 ELSE inbox
    /\ ws_owner' = None
    /\ rx_pc' = "p_ret"
    /\ rx_result' = "Ok"
    /\ rx_hist' = [rx_hist EXCEPT !.end = "read_error"]
    /\ UNCHANGED <<sessVars, wire, dispVars, now, pending_owner, callVars, messages, nread,
                   nmove, histVars>>

\* the caller gets the result back
ProcessMessages_Return ==
    /\ rx_pc = "p_ret"
    /\ rx_pc' = "idle"
    /\ messages' = <<>>
    /\ nread' = 0
    /\ rx_result' = None
    /\ nmove' = 0
    /\ rx_hist' = NoRxHist
    /\ nresync' = 0
    /\ UNCHANGED <<sessVars, wsVars, dispVars, now, pending_owner, callVars,
                   entry, x_entry, cleared, saw_ack, ended_emitted, last_ply, calls, prev_ack,
                   failed_move>>

(* ----------------------------------------------------------------------- *)
(* Specifications                                                          *)
(* ----------------------------------------------------------------------- *)

\* the steps of send_move after its entry
SendMoveSteps ==
    \/ \E t \in Senders : SendMove_CheckEnded(t)
    \/ \E t \in Senders : SendMove_LockPending(t)
    \/ \E t \in Senders : SendMove_CheckPending(t)
    \/ \E t \in Senders : SendMove_SetPending(t)
    \/ \E t \in Senders : SendMove_Build(t)
    \/ \E t \in Senders, delivered \in BOOLEAN : SendMove_Write(t, delivered)
    \/ \E t \in Senders : SendMove_Return(t)

\* the steps of process_messages after its entry
ProcessMessagesSteps ==
    \/ ProcessMessages_Ack
    \/ ProcessMessages_EndData
    \/ \E hasD \in BOOLEAN, ply \in PlyFields, uci \in UciFields, u \in UFields,
          fen \in FenFields, term \in TermFields :
            ProcessMessages_Move(hasD, ply, uci, u, fen, term)
    \/ \E kind \in {"reload", "resync"} : ProcessMessages_Resync(kind)
    \/ \E kind \in IgnoredTexts \cup {"binary"} : ProcessMessages_Ignored(kind)
    \/ \E ponged \in BOOLEAN : ProcessMessages_Ping(ponged)
    \/ ProcessMessages_Close
    \/ \E fatal \in BOOLEAN : ProcessMessages_ReadError(fatal)
    \/ ProcessMessages_Return

\* calls made with the outer session lock held: one at a time
SerialSendMove ==
    /\ AllIdle
    /\ \E uci \in Moves, a \in DirectArgs : SendMove_Call("ui", uci, a[1], a[2])
SerialExecuteAutoMove ==
    /\ AllIdle
    /\ \E uci \in Moves : ExecuteAutoMove_Begin(uci)
SerialProcessMessages ==
    /\ AllIdle
    /\ ProcessMessages_Begin

\* The session used directly, one call at a time.
Next ==
    \/ SerialSendMove
    \/ SerialProcessMessages
    \/ SendMoveSteps
    \/ ProcessMessagesSteps
    \/ ServerSend

Spec == Init /\ [][Next]_vars

\* What the thread inside process_messages does without waiting for anyone:
\* it handles a message the blocking read of line 165 hands over and it
\* returns.  A failing read is the transport's doing, not the thread's.
ProcessMessagesProgress ==
    \/ ProcessMessages_Ack
    \/ ProcessMessages_EndData
    \/ \E hasD \in BOOLEAN, ply \in PlyFields, uci \in UciFields, u \in UFields,
          fen \in FenFields, term \in TermFields :
            ProcessMessages_Move(hasD, ply, uci, u, fen, term)
    \/ \E kind \in {"reload", "resync"} : ProcessMessages_Resync(kind)
    \/ \E kind \in IgnoredTexts \cup {"binary"} : ProcessMessages_Ignored(kind)
    \/ \E ponged \in BOOLEAN : ProcessMessages_Ping(ponged)
    \/ ProcessMessages_Close
    \/ ProcessMessages_Return

\* Spec with running threads that keep running; the server is not obliged
\* to send and the transport is not obliged to fail.
FairSpec ==
    /\ Spec
    /\ WF_vars(SendMoveSteps)
    /\ WF_vars(ProcessMessagesProgress)

\* The clock is read only at the entry of execute_auto_move (line 82) and
\* the driver that makes the calls is the one that sets the panic mode, so
\* both are taken between calls.
DriverTick ==
    /\ AllIdle
    /\ Tick
DriverSetPanicMode ==
    /\ AllIdle
    /\ \E panic \in BOOLEAN : SetPanicMode(panic)

\* The session driven through the AutoMoveController, one call at a time.
\* The server's messages are those that decide whether send_move accepts.
AutoNext ==
    \/ SerialExecuteAutoMove
    \/ SerialProcessMessages
    \/ \E t \in Senders : SendMove_CheckEnded(t)
    \/ \E t \in Senders : SendMove_LockPending(t)
    \/ \E t \in Senders : SendMove_CheckPending(t)
    \/ \E t \in Senders : SendMove_SetPending(t)
    \/ \E t \in Senders : SendMove_Build(t)
    \/ \E t \in Senders, delivered \in BOOLEAN : SendMove_Write(t, delivered)
    \/ ExecuteAutoMove_Match
    \/ ExecuteAutoMove_Return
    \/ ProcessMessages_Ack
    \/ ProcessMessages_EndData
    \/ \E kind \in {"reload", "resync"} : ProcessMessages_Resync(kind)
    \/ ProcessMessages_Close
    \/ \E fatal \in BOOLEAN : ProcessMessages_ReadError(fatal)
    \/ ProcessMessages_Return
    \/ ServerSend
    \/ DriverTick
    \/ DriverSetPanicMode

AutoSpec == Init /\ [][AutoNext]_vars

\* each sender thread has its own move to submit
ConcMove(t) == IF t = "ui" THEN "e2e4" ELSE "d2d4"

\* send_move called from two threads and process_messages from a third,
\* with no lock around the calls.  The server's messages are those that
\* write the fields send_move reads.
ConcNext ==
    \/ \E t \in Senders, a \in DirectArgs : SendMove_Call(t, ConcMove(t), a[1], a[2])
    \/ ProcessMessages_Begin
    \/ SendMoveSteps
    \/ ProcessMessages_Ack
    \/ ProcessMessages_EndData
    \/ \E ply \in PlyFields, term \in TermFields :
            ProcessMessages_Move(TRUE, ply, None, None, None, term)
    \/ \E kind \in {"reload", "resync"} : ProcessMessages_Resync(kind)
    \/ ProcessMessages_Close
    \/ \E fatal \in BOOLEAN : ProcessMessages_ReadError(fatal)
    \/ ProcessMessages_Return
    \/ ServerSend

ConcSpec == Init /\ [][ConcNext]_vars

\* the steps of one send_move call
SendMoveStepsOf(t) ==
    \/ SendMove_CheckEnded(t)
    \/ SendMove_LockPending(t)
    \/ SendMove_CheckPending(t)
    \/ SendMove_SetPending(t)
    \/ SendMove_Build(t)
    \/ \E delivered \in BOOLEAN : SendMove_Write(t, delivered)
    \/ SendMove_Return(t)

\* The same three threads, with the server's messages restricted to those
\* whose handling takes the pending_move mutex and those that end the call.
LockNext ==
    \/ \E t \in Senders, a \in DirectArgs : SendMove_Call(t, ConcMove(t), a[1], a[2])
    \/ ProcessMessages_Begin
    \/ \E t \in Senders : SendMoveStepsOf(t)
    \/ ProcessMessages_Ack
    \/ \E kind \in {"reload", "resync"} : ProcessMessages_Resync(kind)
    \/ ProcessMessages_Close
    \/ \E fatal \in BOOLEAN : ProcessMessages_ReadError(fatal)
    \/ ProcessMessages_Return
    \/ ServerSend

LockSpec == Init /\ [][LockNext]_vars

TypeOK ==
    /\ pending_move \in Moves \cup {None}
    /\ current_ack \in {0} \cup {AsU32(p) : p \in U64Plies}
    /\ game_ended \in BOOLEAN
    /\ last_move_acked \in BOOLEAN
    /\ ws_owner \in {None, "rx"}
    /\ pending_owner \in Senders \cup {None}
    /\ conn \in {"open", "closed"}
    /\ inbox \in 0..MaxInbox
    /\ calls \in 0..MaxCalls
    /\ panic_mode \in BOOLEAN
    /\ last_move_sent \in Moves \cup {None}
    /\ now \in 0..MaxNow
    /\ rx_pc \in {"idle", "loop", "p_ret"}
    /\ nread \in 0..MaxFrames
    /\ nmove \in 0..MaxMoveFrames
    /\ failed_move \in Moves \cup {None}
    /\ \A t \in Senders : pc[t] \in {"idle", "s_ended", "s_check", "s_set", "s_build",
                                     "s_write", "s_ret", "x_ret"}

(* ----------------------------------------------------------------------- *)
(* Properties                                                              *)
(* ----------------------------------------------------------------------- *)

\* send_move has been entered by the current execute_auto_move call
Forwarded == args["auto"] # NoArgs

\* C1, as stated: a send_move call made while pending_move is Some returns
\* the "Move already pending" error, leaves pending_move unchanged and writes
\* no frame.
C1_PendingAlwaysMovePending ==
    \A t \in Senders :
        (pc[t] = "s_ret" /\ entry[t].pending # None) =>
            /\ result[t] = ErrMovePending
            /\ pending_move = entry[t].pending
            /\ Len(wire) = entry[t].wirelen

\* C1, amended: a send_move call made while pending_move is Some returns
\* "Move already pending" if game_ended is false and "Game has ended" if it
\* is true; either way pending_move is unchanged and no frame is written.
C1_PendingRejected ==
    \A t \in Senders :
        (pc[t] = "s_ret" /\ entry[t].pending # None) =>
            /\ result[t] = IF entry[t].ended THEN ErrGameEnded ELSE ErrMovePending
            /\ pending_move = entry[t].pending
            /\ Len(wire) = entry[t].wirelen

C1_Witness ==
    /\ pc["ui"] = "s_ret"
    /\ entry["ui"].pending # None
    /\ ~entry["ui"].ended
    /\ result["ui"] = ErrMovePending

\* C2: of two send_move calls that both began with pending_move == None and
\* saw no ack/reload/resync, at most one succeeds and at most one frame is
\* written.
C2_CheckAndSetIndivisible ==
    (/\ \A t \in Senders : pc[t] = "s_ret" /\ entry[t].pending = None /\ ~cleared[t])
        => /\ Cardinality({t \in Senders : result[t] = "Ok"}) <= 1
           /\ \A t \in Senders : Len(wire) <= entry[t].wirelen + 1

\* C3: game_ended never goes back to false, and a send_move call made after
\* a GAME_END event was produced returns "Game has ended".
C3_StickyTermination ==
    [][ /\ game_ended => game_ended'
        /\ \A t \in Senders :
             (pc'[t] = "s_ret" /\ entry'[t].emitted) => result'[t] = ErrGameEnded
      ]_vars

\* a move was sent, the game ended, the pending move was cleared by a later
\* frame, and the next send_move is refused
C3_Witness ==
    /\ pc["ui"] = "s_ret"
    /\ entry["ui"].emitted
    /\ result["ui"] = ErrGameEnded
    /\ Len(wire) = 1
    /\ pending_move = None

\* C4: once an ack has been processed pending_move is None, in particular
\* when the process_messages call returns, and the next send_move (game not
\* ended) is not refused as "Move already pending".
C4_AckClearsPending ==
    /\ saw_ack # "no" => pending_move = None
    /\ \A t \in Senders :
         (pc[t] = "s_ret" /\ entry[t].acked # "no" /\ ~entry[t].ended)
             => result[t] # ErrMovePending

\* an ack took a pending move and the following send_move was accepted
C4_Witness ==
    /\ pc["ui"] = "s_ret"
    /\ entry["ui"].acked = "took"
    /\ result["ui"] = "Ok"

\* the event the specification calls ResyncRequired
ResyncRequiredEvent == <<"RESYNC">>

\* C5: each reload/resync frame leaves pending_move == None and adds exactly
\* one ResyncRequired event to the events of the call.
C5_ResyncClearsAndEmits ==
    nresync > 0 =>
        /\ pending_move = None
        /\ Cardinality({i \in 1..Len(messages) : messages[i] = ResyncRequiredEvent}) = nresync

\* C6: a send_move call that returns Ok has written exactly one frame, one
\* that returns an error has written none.
C6_OneFramePerSuccess ==
    \A t \in Senders :
        /\ pc[t] = "s_ret" =>
              Len(wire) = entry[t].wirelen + (IF result[t] = "Ok" THEN 1 ELSE 0)
        /\ pc[t] \in {"s_ended", "s_check", "s_set", "s_build", "s_write"} =>
              Len(wire) = entry[t].wirelen

C6_Witness ==
    /\ pc["ui"] = "s_ret"
    /\ result["ui"] = "Ok"
    /\ Len(wire) = entry["ui"].wirelen + 1

\* time between the recorded submission and the current execute_auto_move call
SinceLast == x_entry.at - x_entry.last_time[1]

C8_LagComputation ==
    /\ Forwarded =>
          /\ args["auto"].lag_ms = IF panic_mode THEN 50 ELSE 20
          /\ args["auto"].berserked = panic_mode
    /\ \A i \in 1..Len(wire) : <<wire[i].l, wire[i].b>> \in { <<20, 0>>, <<50, 1>> }
    /\ (pc["auto"] = "s_ret" /\ result["auto"] = "Ok") =>
          /\ wire[Len(wire)].l = IF panic_mode THEN 50 ELSE 20
          /\ wire[Len(wire)].b = IF panic_mode THEN 1 ELSE 0

\* one frame of each kind has been written
C8_Witness ==
    /\ \E i \in 1..Len(wire) : wire[i].l = 20 /\ wire[i].b = 0
    /\ \E i \in 1..Len(wire) : wire[i].l = 50 /\ wire[i].b = 1

\* C9: execute_auto_move returns true exactly when send_move was entered,
\* returned Ok and wrote its frame.
C9_TrueIffSent ==
    pc["auto"] = "x_ret" =>
        (ret = TRUE <=> /\ Forwarded
                        /\ result["auto"] = "Ok"
                        /\ Len(wire) = entry["auto"].wirelen + 1)

\* a call refused by the session: execute_auto_move returned false
C9_Witness ==
    /\ pc["auto"] = "x_ret"
    /\ Forwarded
    /\ result["auto"] = ErrMovePending
    /\ ret = FALSE

\* C10, as stated: after a move frame with a ply, current_ack equals that ply.
C10_AckEqualsPly ==
    last_ply # NoPly => (last_ply.hi = 0 /\ current_ack = last_ply.lo)

\* C10, amended: current_ack is the low 32 bits of the last ply that was an
\* unsigned 64-bit integer, also when that is lower than the stored value,
\* and 0 before any such ply; nothing else changes it.
C10_AckOverwrite ==
    /\ last_ply = NoPly => current_ack = 0
    /\ last_ply # NoPly => current_ack = last_ply.lo

\* ply 7 was stored, then ply 5
C10_Witness ==
    /\ prev_ack = 7
    /\ current_ack = 5
    /\ last_ply = U64(0, 5)

\* C11: a process_messages call that finds no message to read does not stay
\* in its read: it returns (or, at the latest, a message arrives).
C11_DrainReturnsWhenIdle ==
    (rx_pc = "loop" /\ inbox = 0) ~> (rx_pc # "loop" \/ inbox > 0)

\* C12: a process_messages call that ends on a failed read returns an error.
C12_ReadFailureIsAnError ==
    (rx_pc = "p_ret" /\ rx_hist.end = "read_error") => rx_result = "Err"

\* C13: when send_move writes its frame, pending_move has not been cleared
\* since the call set it.
C13_SlotHeldUntilWrite ==
    \A t \in Senders :
        (entry[t].written /\ result[t] = "Ok") => entry[t].wpending # None

\* C14: no move frame is written when game_ended is already true.
C14_NoFrameAfterGameEnd ==
    \A t \in Senders :
        (entry[t].written /\ result[t] = "Ok") => ~entry[t].wended

\* the step handles one message that process_messages read
HandlesMessage == nread' = nread + 1

\* the last message handled ended the game
LastEndedGame ==
    \/ rx_hist.last = "endData"
    \/ rx_hist.last = "move" /\ IsTerminal(rx_hist.move.term)

\* C15, as stated: an ack, a reload/resync and a game-end event each leave
\* pending_move empty.
C15_ThreeKindsClear ==
    (rx_hist.last \in {"ack", "reload", "resync"} \/ LastEndedGame) => pending_move = None

\* C15, amended: a set pending_move is emptied by an ack and by a
\* reload/resync and by nothing else; a game-end event and every other
\* message leave it as it is, and the only other writer is the set of
\* send_move itself.
C15_PendingLifecycle ==
    [][pending_move # None =>
        /\ pending_move' # pending_move =>
              \/ /\ pending_move' = None
                 /\ HandlesMessage
                 /\ rx_hist'.last \in {"ack", "reload", "resync"}
              \/ \E t \in Senders : /\ pc[t] = "s_set"
                                     /\ pc'[t] = "s_build"
                                     /\ pending_move' = args[t].uci
        /\ (HandlesMessage /\ rx_hist'.last \in {"ack", "reload", "resync"}) =>
              pending_move' = None
        /\ (HandlesMessage /\ rx_hist'.last \notin {"ack", "reload", "resync"}) =>
              pending_move' = pending_move]_vars

\* the game ended while a move was pending, and the move is still pending
C15_Witness ==
    /\ LastEndedGame
    /\ game_ended
    /\ pending_move # None

\* C16: the events a process_messages call has collected, the GAME_END of
\* a game it ended included, are in the result the call returns.
C16_EventsReachCaller ==
    (rx_pc = "p_ret" /\ messages # <<>>) => rx_result = "Ok"

\* C17: the "a" of a move frame is current_ack as it is when the frame is
\* written.
C17_FrameCarriesCurrentAck ==
    \A t \in Senders :
        (entry[t].written /\ result[t] = "Ok") => ack[t] = entry[t].wack

\* the events the last "move" frame of the current call pushed
LastMoveEvents == SubSeq(messages, rx_hist.move.from + 1, rx_hist.move.to)

\* how many events of the given tag a sequence holds
CountTag(evs, tag) == Cardinality({i \in 1..Len(evs) : evs[i][1] = tag})

\* the place of an event in the order MOVE, FEN, GAME_END
Rank(ev) == IF ev[1] = "MOVE" THEN 1 ELSE IF ev[1] = "FEN" THEN 2 ELSE 3

\* C18: a "move" frame pushes MOVE, FEN, GAME_END in that order and each at
\* most once: one MOVE when "uci" or "u" holds a move (that of "uci" when
\* both do), one FEN when "fen" is there, GAME_END when "status" or "winner"
\* is there, and nothing when none of them is.
C18_MoveFrameEvents ==
    rx_hist.move.seen =>
        LET m == rx_hist.move
            evs == LastMoveEvents
        IN  /\ CountTag(evs, "MOVE") = IF m.uci # None \/ m.u # None THEN 1 ELSE 0
            /\ CountTag(evs, "FEN") = IF m.fen # None THEN 1 ELSE 0
            /\ CountTag(evs, "GAME_END") = IF m.term # "none" THEN 1 ELSE 0
            /\ \A i, j \in 1..Len(evs) : i < j => Rank(evs[i]) < Rank(evs[j])
            /\ \A i \in 1..Len(evs) :
                    /\ evs[i][1] = "MOVE" =>
                          evs[i] = MoveEvent(IF m.uci # None THEN m.uci ELSE m.u)
                    /\ evs[i][1] = "FEN" => evs[i] = FenEvent(m.fen)

\* a frame with "uci", "u", "fen", "status" and "winner" pushed three events
C18_Witness ==
    /\ rx_hist.move.seen
    /\ rx_hist.move.uci # None
    /\ rx_hist.move.u # None
    /\ rx_hist.move.fen # None
    /\ rx_hist.move.term = "both"
    /\ LastMoveEvents = <<MoveEvent(rx_hist.move.uci), FenEvent(rx_hist.move.fen),
                          GameEndEvent>>

\* C19: an attempt that is not suppressed has recorded its move and its
\* time by the time send_move is entered, whatever send_move answers; a
\* suppressed attempt leaves the recorded move and time as they were.
C19_RecordsBeforeDelegating ==
    x_entry.active =>
        IF Forwarded
            THEN /\ last_move_sent = x_entry.uci
                 /\ last_move_time = SomeTime(x_entry.at)
            ELSE /\ last_move_sent = x_entry.last_sent
                 /\ last_move_time = x_entry.last_time

\* a suppressed retry, later than the attempt it repeats, left the older
\* time in place
C19_Witness ==
    /\ pc["auto"] = "x_ret"
    /\ ~Forwarded
    /\ x_entry.at > 0
    /\ last_move_time = x_entry.last_time
    /\ last_move_time # SomeTime(x_entry.at)

\* C20: handling text that is not JSON, has no "t", has an unknown "t" or is
\* "crowd" leaves pending_move, current_ack and game_ended as they are,
\* pushes no event and keeps the call in its read loop.
C20_IgnoredFrames ==
    [][(HandlesMessage /\ rx_hist'.last = "ignored") =>
          /\ pending_move' = pending_move
          /\ current_ack' = current_ack
          /\ game_ended' = game_ended
          /\ messages' = messages
          /\ rx_pc' = "loop"
          /\ rx_result' = rx_result]_vars

\* the call that ignored a message went on to handle an "endData"
C20_Witness ==
    /\ rx_hist.after_ignored
    /\ rx_hist.last = "endData"
    /\ messages = <<GameEndEvent>>
    /\ game_ended

\* C21, as stated: a send_move whose write failed leaves its move in
\* pending_move, and every send_move made before the next ack or
\* reload/resync returns "Move already pending" and writes nothing.
C21_FailedWriteBlocksAsPending ==
    /\ failed_move # None => pending_move = failed_move
    /\ \A t \in Senders :
          (pc[t] = "s_ret" /\ entry[t].failed # None) =>
              /\ result[t] = ErrMovePending
              /\ pending_move = entry[t].failed
              /\ Len(wire) = entry[t].wirelen

\* C21, amended: the failed send_move returns the send error, writes nothing
\* and leaves its move in pending_move; every send_move made before the next
\* ack or reload/resync is refused without a frame and without a change to
\* pending_move, with "Game has ended" if the game has ended by then and with
\* "Move already pending" otherwise.
C21_FailedWriteNotRolledBack ==
    /\ failed_move # None => pending_move = failed_move
    /\ \A t \in Senders :
          /\ (pc[t] = "s_ret" /\ result[t] = ErrSendFailed) =>
                /\ failed_move = args[t].uci
                /\ Len(wire) = entry[t].wirelen
          /\ (pc[t] = "s_ret" /\ entry[t].failed # None) =>
                /\ result[t] = IF entry[t].ended THEN ErrGameEnded ELSE ErrMovePending
                /\ pending_move = entry[t].failed
                /\ failed_move = entry[t].failed
                /\ Len(wire) = entry[t].wirelen

\* a second send_move, made after one whose write failed, was refused
C21_Witness ==
    \E t \in Senders :
        /\ pc[t] = "s_ret"
        /\ entry[t].failed # None
        /\ result[t] = ErrMovePending
        /\ pending_move = entry[t].failed
        /\ wire = <<>>

\* C22: send_move holds the pending_move mutex only inside its two short
\* scopes, never while it waits for the ws mutex, and its holder can always
\* take its next step; process_messages holds the ws mutex whenever it is in
\* its loop.  So a send_move call that cannot take a step waits either for
\* the pending_move mutex held by the other sender or for the ws mutex held
\* by the running process_messages call: there is no cycle of waits, and
\* with no process_messages call running every sender can go on.
C22_NoLockCycle ==
    /\ rx_pc = "loop" => ws_owner = "rx"
    /\ \A t \in Senders :
          /\ pending_owner = t =>
                /\ pc[t] \in {"s_check", "s_set"}
                /\ ENABLED SendMoveStepsOf(t)
          /\ pc[t] # "idle" =>
                \/ ENABLED SendMoveStepsOf(t)
                \/ pc[t] \in {"s_check", "s_set"} /\ pending_owner \in Senders \ {t}
                \/ pc[t] = "s_write" /\ ws_owner = "rx"

\* one sender waits for the ws mutex that process_messages holds while the
\* other sender holds the pending_move mutex
C22_Witness ==
    /\ rx_pc = "loop"
    /\ ws_owner = "rx"
    /\ pc["ui"] = "s_write"
    /\ ~ENABLED SendMoveStepsOf("ui")
    /\ pending_owner = "auto"

====
